---- MODULE Spec2Model ----
(***************************************************************************)
(* A model of src/ci_bot.py: the configuration loader, the Telegram        *)
(* notifier (CIBot), the two upload adapters, the progress extractor and   *)
(* the sequential build pipeline of main().                                *)
(*                                                                         *)
(* Text is modelled as a sequence of tokens (one-character strings, or a   *)
(* word standing for a run of ordinary characters), so that strip() and    *)
(* lower() do what the Python methods do.  A value parsed from the config  *)
(* file is a record that is either a Python str or a Python bool.          *)
(***************************************************************************)
EXTENDS Integers, Sequences, FiniteSets, TLC

\* ---------------------------------------------------------------- bounds
MaxStatus == 1      \* exit statuses of external tools range over 0..MaxStatus
MaxPct == 1         \* percentages printed by the build range over 0..MaxPct
MaxLog == 3         \* lines the build child writes in the polling specification
MaxFiles == 2       \* files of the device output directory (selection spec.)
MaxSize == 2        \* file sizes range over 1..MaxSize

\* ------------------------------------------------------------ Python values
\* self.message_id = None: no message identifier is known.
NoId == 0
\* The identifier the chat server gives the message of each kind.
SyncMsgId == 1
BuildMsgId == 2
NoteMsgId == 3

Str(s) == [isBool |-> FALSE, b |-> FALSE, s |-> s]
Bool(b) == [isBool |-> TRUE, b |-> b, s |-> <<>>]
\* Python truthiness of a parsed value.
Truthy(v) == IF v.isBool THEN v.b ELSE v.s # <<>>

ExitStatuses == 0..MaxStatus

\* ------------------------------------------------------------ text helpers
Whitespace == {" ", "\n", "\t"}

RECURSIVE LStrip(_, _)
LStrip(s, chars) ==
    IF s # <<>> /\ Head(s) \in chars THEN LStrip(Tail(s), chars) ELSE s

RECURSIVE RStrip(_, _)
RStrip(s, chars) ==
    IF s # <<>> /\ s[Len(s)] \in chars
    THEN RStrip(SubSeq(s, 1, Len(s) - 1), chars)
    ELSE s

\* str.strip(chars): every leading and trailing character of chars goes.
Strip(s, chars) == RStrip(LStrip(s, chars), chars)

LowerChar(c) ==
    CASE c = "T" -> "t"
      [] c = "R" -> "r"
      [] c = "U" -> "u"
      [] c = "E" -> "e"
      [] c = "F" -> "f"
      [] c = "A" -> "a"
      [] c = "L" -> "l"
      [] c = "S" -> "s"
      [] c = "OTA" -> "ota"
      [] c = "Target_Files" -> "target_files"
      [] OTHER -> c

\* str.lower()
Lower(s) == [i \in 1..Len(s) |-> LowerChar(s[i])]

\* ---------------------------------------------------------- load_env
Keys == {"DEVICE", "VARIANT", "BOT_TOKEN", "CHAT_ID", "ERROR_CHAT_ID",
         "POWEROFF", "RCLONE_REMOTE", "RCLONE_FOLDER"}

\* value.strip().strip('"').strip("'"), then the boolean coercion.
ParseValue(raw) ==
    LET v == Strip(Strip(Strip(raw, Whitespace), {"\""}), {"'"})
    IN  IF Lower(v) = <<"t", "r", "u", "e">> THEN Bool(TRUE)
        ELSE IF Lower(v) = <<"f", "a", "l", "s", "e">> THEN Bool(FALSE)
        ELSE Str(v)

\* The file is a function from the keys it has a "key=value" line for to
\* the raw text after the first "=" of that line.
load_env(file) == [k \in DOMAIN file |-> ParseValue(file[k])]

\* required_keys of main(), in the order they are validated.
required_keys == <<"DEVICE", "VARIANT", "BOT_TOKEN", "CHAT_ID">>

\* A validation that only asks whether the key is there.
KeyMissing_PresenceOnly(cfg, key) == key \notin DOMAIN cfg

\* "key not in CONFIG or not CONFIG[key]"
KeyMissing(cfg, key) == key \notin DOMAIN cfg \/ ~Truthy(cfg[key])

\* CONFIG.get(key) used as a condition.
ConfigFlag(cfg, key) == key \in DOMAIN cfg /\ Truthy(cfg[key])

\* ------------------------------------------------------------- CIBot
\* One request put on the network: the API method, the kind of text it
\* carries, the message identifier and destination it names, and (for
\* sendMessage) the identifier the server answered with, NoId on failure.
Request(api, text, mid, chat, result) ==
    [api |-> api, text |-> text, message_id |-> mid, chat_id |-> chat,
     result |-> result]

\* "chat_id if chat_id else self.config['CHAT_ID']"; <<>> stands for None.
TargetChat(cfg, chat_id) == IF chat_id # <<>> THEN chat_id ELSE cfg["CHAT_ID"].s

\* send_message: the request, and the identifier returned (None unless the
\* post succeeded and the response said ok).
send_message_request(cfg, text, chat_id, ok, id) ==
    Request("sendMessage", text, NoId, TargetChat(cfg, chat_id),
            IF ok THEN id ELSE NoId)

send_message_result(ok, id) == IF ok THEN id ELSE NoId

\* edit_message: the requests it posts; none when no identifier is known.
edit_message(cfg, self_id, text, message_id, chat_id) ==
    LET msg_id == IF message_id # NoId THEN message_id ELSE self_id
    IN  IF msg_id = NoId THEN {}
        ELSE {Request("editMessageText", text, msg_id,
                      TargetChat(cfg, chat_id), NoId)}

\* send_document: the request it posts.
send_document(cfg, chat_id) ==
    {Request("sendDocument", "error.log", NoId, TargetChat(cfg, chat_id), NoId)}

\* pin_message: the request it posts.
pin_message(cfg, message_id, chat_id) ==
    {Request("pinChatMessage", "", message_id, TargetChat(cfg, chat_id), NoId)}

\* ------------------------------------------------------ fetch_progress
\* A line of build.log: whether it holds the word "ninja", whether it holds
\* a "%", what the pattern (\d+%) (\d+/\d+) finds in it (<<>>: nothing,
\* else <<percent, completed, total>>) and whether it holds the phrase
\* "build completed successfully".  A garbled line holds bytes that are not
\* text in the locale's encoding.
Line(ninja, percent, found, phrase) ==
    [ninja |-> ninja, percent |-> percent, found |-> found, phrase |-> phrase,
     garbled |-> FALSE]

GarbledLine ==
    [ninja |-> FALSE, percent |-> FALSE, found |-> <<>>, phrase |-> FALSE,
     garbled |-> TRUE]

\* The values a progress variable takes: None, "", "Initializing..." and
\* "<percent> (<completed>/<total>)".
NoneProg == [kind |-> "None", pct |-> 0, done |-> 0, total |-> 0]
EmptyProg == [kind |-> "", pct |-> 0, done |-> 0, total |-> 0]
Sentinel == [kind |-> "Initializing...", pct |-> 0, done |-> 0, total |-> 0]
FormatProg(m) == [kind |-> "prog", pct |-> m[1], done |-> m[2], total |-> m[3]]

\* A scan from the first line on: the first matching line decides.
RECURSIVE ScanForward(_)
ScanForward(lines) ==
    IF lines = <<>> THEN Sentinel
    ELSE LET line == Head(lines)
         IN  IF (line.ninja \/ line.percent) /\ line.found # <<>>
             THEN FormatProg(line.found)
             ELSE ScanForward(Tail(lines))

\* "for line in reversed(lines)": the last line that passes the substring
\* test and matches the pattern decides; lines that do not are skipped.
RECURSIVE ScanReversed(_)
ScanReversed(lines) ==
    IF lines = <<>> THEN Sentinel
    ELSE LET line == lines[Len(lines)]
         IN  IF (line.ninja \/ line.percent) /\ line.found # <<>>
             THEN FormatProg(line.found)
             ELSE ScanReversed(SubSeq(lines, 1, Len(lines) - 1))

\* fetch_progress(log_file): None when the file does not exist.  The file is
\* opened with strict decoding, so readlines() raises on a garbled line
\* anywhere in it; the exception is swallowed and the sentinel returned.
fetch_progress(exists, lines) ==
    IF ~exists THEN NoneProg
    ELSE IF \E i \in 1..Len(lines) : lines[i].garbled THEN Sentinel
    ELSE ScanReversed(lines)

\* ------------------------------------------------------ upload adapters
Returned(v) == [raised |-> "", value |-> v]
Raised(e) == [raised |-> e, value |-> <<>>]

\* upload_rclone under the outcomes w of its external steps: whether the
\* rclone binary can be started, the exit status of "rclone copy", and what
\* "rclone link" printed.  Only CalledProcessError is caught.
upload_rclone(w) ==
    IF ~w.rcloneInstalled THEN Raised("FileNotFoundError")
    ELSE IF w.copyStatus # 0 THEN Returned(<<"Rclone Upload Failed">>)
    ELSE Returned(Strip(w.linkStdout, Whitespace))

\* upload_gofile under the outcomes w of its two requests; every exception
\* is caught and returned as text.
upload_gofile(w) ==
    IF w.servers = "raise" THEN Returned(<<"Error: ", "e">>)
    ELSE IF w.servers = "error" THEN Returned(<<"Error getting gofile server">>)
    ELSE IF w.servers = "empty" THEN Returned(<<"Error: ", "e">>)
    ELSE IF w.upload = "raise" THEN Returned(<<"Error: ", "e">>)
    ELSE IF w.upload = "ok" THEN Returned(<<"https://", "gofile.io/d/x">>)
    ELSE Returned(<<"Upload Failed">>)

\* ------------------------------------------------- artifact selection
Range(s) == {s[i] : i \in 1..Len(s)}

\* "sub in s" for Python strings.
Contains(s, sub) ==
    \E i \in 0..(Len(s) - Len(sub)) : SubSeq(s, i + 1, i + Len(sub)) = sub

\* "CONFIG['DEVICE'] in f and f.endswith('.zip')"
InArtifactSet(cfg, f) ==
    /\ Contains(f.name, cfg["DEVICE"].s)
    /\ f.name # <<>>
    /\ f.name[Len(f.name)] = ".zip"

\* The exclusion test without lower().
IsMainCandidate_CaseSensitive(f) ==
    /\ ~Contains(f.name, <<"ota">>)
    /\ ~Contains(f.name, <<"target_files">>)

\* '"ota" not in f.lower() and "target_files" not in f.lower()'
IsMainCandidate(f) ==
    /\ ~Contains(Lower(f.name), <<"ota">>)
    /\ ~Contains(Lower(f.name), <<"target_files">>)

\* list.sort(key=getsize, reverse=True): stable, largest first.
RECURSIVE InsertBySize(_, _)
InsertBySize(x, sorted) ==
    IF sorted = <<>> THEN <<x>>
    ELSE IF Head(sorted).size >= x.size
         THEN <<Head(sorted)>> \o InsertBySize(x, Tail(sorted))
         ELSE <<x>> \o sorted

RECURSIVE SortBySizeDesc(_)
SortBySizeDesc(files) ==
    IF files = <<>> THEN <<>>
    ELSE InsertBySize(files[Len(files)],
                      SortBySizeDesc(SubSeq(files, 1, Len(files) - 1)))

all_files(cfg, listing) == SelectSeq(listing, LAMBDA f : InArtifactSet(cfg, f))

main_files(cfg, listing) == SelectSeq(all_files(cfg, listing), IsMainCandidate)

\* rom_filename of main(); defined when all_files is not empty.
SelectRom(cfg, listing) ==
    IF main_files(cfg, listing) # <<>>
    THEN SortBySizeDesc(main_files(cfg, listing))[1]
    ELSE SortBySizeDesc(all_files(cfg, listing))[1]

\* ------------------------------------------------------- main(): helpers
\* A sync stage that never retries.
sync_returncodes_NoRetry(r1, r2) == <<r1>>

\* The exit statuses of the sync tool's invocations: the plain forced sync
\* runs only when the first invocation exited non-zero.
sync_returncodes(r1, r2) == IF r1 # 0 THEN <<r1, r2>> ELSE <<r1>>

\* The text the sync status message is edited to, from ret.returncode.
sync_status_text(returncode) ==
    IF returncode = 0 THEN "Sync Complete" ELSE "Sync Failed"

\* '"build completed successfully" in f.read()' when build.log exists; this
\* read is opened with errors="ignore", so a garbled line does not stop it.
LogHasPhrase(exists, lines) ==
    exists /\ \E i \in 1..Len(lines) : lines[i].phrase

\* A success test without the artifact fallback.
build_succeeded_LogOnly(cfg, exists, lines, dirExists, files) ==
    LogHasPhrase(exists, lines)

\* build_success after the log check and the artifact fallback.
build_succeeded(cfg, exists, lines, dirExists, files) ==
    \/ LogHasPhrase(exists, lines)
    \/ dirExists /\ all_files(cfg, files) # <<>>

\* "CONFIG.get('ERROR_CHAT_ID') if CONFIG.get('ERROR_CHAT_ID') else CONFIG['CHAT_ID']"
target_error_chat(cfg) ==
    IF ConfigFlag(cfg, "ERROR_CHAT_ID") THEN cfg["ERROR_CHAT_ID"].s
    ELSE cfg["CHAT_ID"].s

\* A handler as narrow as upload_rclone's.
MainCatches_OnlyCalledProcessError(e) == e = "CalledProcessError"

\* "except Exception" of main(): every exception the try block can raise
\* derives from Exception.
MainCatches(e) == e \in {"FileNotFoundError", "OSError", "KeyError",
                         "CalledProcessError"}

\* ------------------------------------------------------------------ state
VARIABLES
    pc,              \* where main() is
    exitCode,        \* the process's exit code once pc = "exited"
    fileExists,      \* whether the config file exists
    file,            \* the config file's "key=value" lines
    args,            \* the parsed command line
    CONFIG,          \* the mapping load_env returned
    validated,       \* whether the required keys were all found
    message_id,      \* bot.message_id
    net,             \* the chat API requests put on the network so far
    effects,         \* kinds of side effect so far (subprocess, removal, ...)
    syncRets,        \* exit statuses of the sync invocations, in order
    child,           \* the build child: "none", "running", "exited"
    script,          \* the lines the build child has yet to print
    logExists,       \* whether build.log exists
    log,             \* the lines of build.log
    previous_prog,   \* previous_prog of the polling loop
    outDirExists,    \* whether out/target/product/<device> exists
    listing,         \* os.listdir of that directory
    errorLogExists,  \* whether out/error.log exists
    build_success,   \* build_success of main()
    rom_filename,    \* the selected main artifact (<<>>: none yet)
    raised,          \* the exception raised inside the try block ("": none)
    world,           \* the outcomes of the adapters' external steps
    rclone_out,      \* what upload_rclone did
    gofile_out,      \* what upload_gofile did
    shutdownIssued   \* whether "sudo poweroff" was run

vars == <<pc, exitCode, fileExists, file, args, CONFIG, validated, message_id,
          net, effects, syncRets, child, script, logExists, log, previous_prog,
          outDirExists, listing, errorLogExists, build_success,
          rom_filename, raised, world, rclone_out, gofile_out, shutdownIssued>>

inputVars == <<fileExists, file, args>>
buildVars == <<child, script, logExists, log, previous_prog>>
outVars == <<outDirExists, listing, errorLogExists>>
packVars == <<rom_filename, raised, world, rclone_out, gofile_out>>

\* ----------------------------------------------------------------- inputs
Absent == <<"<absent>">>

\* What a config file may say for each key (Absent: no line for the key).
ConfigFileChoices ==
    [DEVICE : {Absent, <<"\"", "\"">>, <<"dev">>},
     VARIANT : {Absent, <<" ">>, <<"user">>},
     BOT_TOKEN : {Absent, <<"'", "'">>, <<"token">>},
     CHAT_ID : {Absent, <<>>, <<"\"", "chat", "\"">>},
     ERROR_CHAT_ID : {Absent, <<"errors">>},
     POWEROFF : {Absent, <<"T", "r", "u", "e">>, <<"f", "a", "l", "s", "e">>},
     RCLONE_REMOTE : {Absent, <<"remote">>},
     RCLONE_FOLDER : {<<"folder">>}]

ConfigFile(c) == [k \in {k \in Keys : c[k] # Absent} |-> c[k]]

ConfigFiles == {ConfigFile(c) : c \in ConfigFileChoices}

\* A config file with every required key, the upload keys and POWEROFF.
GoodConfigFile ==
    ConfigFile([DEVICE |-> <<"dev">>, VARIANT |-> <<"user">>,
                BOT_TOKEN |-> <<"token">>, CHAT_ID |-> <<"chat">>,
                ERROR_CHAT_ID |-> Absent, POWEROFF |-> <<"t", "r", "u", "e">>,
                RCLONE_REMOTE |-> <<"remote">>, RCLONE_FOLDER |-> <<"folder">>])

Args(s, c, cd, d) ==
    [sync |-> s, clean |-> c, clean_device |-> cd, disk_optimization |-> d]

ArgChoices == {Args(FALSE, FALSE, FALSE, FALSE), Args(TRUE, FALSE, FALSE, FALSE),
               Args(FALSE, TRUE, TRUE, TRUE), Args(TRUE, TRUE, FALSE, TRUE)}

\* Lines the build prints.
OtherLine == Line(FALSE, FALSE, <<>>, FALSE)
NinjaLine == Line(TRUE, FALSE, <<>>, FALSE)
SuccessLine == Line(FALSE, FALSE, <<>>, TRUE)
ProgLine(p) == Line(FALSE, TRUE, <<p, p, MaxPct>>, FALSE)

LogLines ==
    {OtherLine, NinjaLine, SuccessLine, GarbledLine}
        \cup {ProgLine(p) : p \in 0..MaxPct}

RECURSIVE SeqsUpTo(_, _)
SeqsUpTo(S, n) ==
    IF n = 0 THEN {<<>>}
    ELSE LET shorter == SeqsUpTo(S, n - 1)
         IN  shorter \cup {Append(q, x) : q \in shorter, x \in S}

\* What the build prints: every output in the polling specification, a few
\* in the pipeline specification.
AllScripts == SeqsUpTo(LogLines, MaxLog)
PipelineScripts == {<<>>, <<ProgLine(0), SuccessLine>>, <<ProgLine(0)>>}

\* Files of the device output directory.
File(name, size) == [name |-> name, size |-> size]

FileNames(i) ==
    {<<ToString(i)>> \o d \o t \o e :
        d \in {<<>>, <<"dev">>},
        t \in {<<>>, <<"OTA">>, <<"target_files">>},
        e \in {<<".zip">>, <<".img">>}}

RECURSIVE ListingsOf(_)
ListingsOf(n) ==
    IF n = 0 THEN {<<>>}
    ELSE {Append(l, File(nm, sz)) :
             l \in ListingsOf(n - 1), nm \in FileNames(n), sz \in 1..MaxSize}

ListingsUpTo(max) == UNION {ListingsOf(n) : n \in 0..max}

OutDir(exists, files, errorLog) ==
    [exists |-> exists, files |-> files, errorLog |-> errorLog]

OutDirsUpTo(max) == {OutDir(TRUE, l, FALSE) : l \in ListingsUpTo(max)}

PipelineOutDirs ==
    {OutDir(FALSE, <<>>, FALSE), OutDir(TRUE, <<>>, TRUE),
     OutDir(TRUE, <<File(<<"1", "dev", ".zip">>, 1)>>, FALSE),
     OutDir(TRUE, <<File(<<"1", "boot", ".img">>, 1)>>, TRUE)}

\* Outcomes of the adapters' external steps.
NoWorld ==
    [rcloneInstalled |-> TRUE, copyStatus |-> 0, linkStdout |-> <<>>,
     servers |-> "", upload |-> ""]

AllWorlds ==
    [rcloneInstalled : BOOLEAN, copyStatus : ExitStatuses,
     linkStdout : {<<>>, <<"https://", "remote/link", "\n">>},
     servers : {"raise", "error", "empty", "ok"},
     upload : {"raise", "error", "ok"}]

PipelineWorlds ==
    {w \in AllWorlds : w.copyStatus = 0 /\ w.servers = "ok" /\ w.upload = "ok"}

\* ---------------------------------------------------------- initial state
\* The state main() starts in, before anything has been read.
Blank ==
    /\ pc = "start"
    /\ exitCode = 0
    /\ CONFIG = <<>>
    /\ validated = FALSE
    /\ message_id = NoId
    /\ net = {}
    /\ effects = {}
    /\ syncRets = <<>>
    /\ child = "none"
    /\ script = <<>>
    /\ previous_prog = EmptyProg
    /\ outDirExists = FALSE
    /\ listing = <<>>
    /\ errorLogExists = FALSE
    /\ build_success = FALSE
    /\ rom_filename = <<>>
    /\ raised = ""
    /\ world = NoWorld
    /\ rclone_out = Returned(<<>>)
    /\ gofile_out = Returned(<<>>)
    /\ shutdownIssued = FALSE

Init ==
    /\ Blank
    /\ fileExists \in BOOLEAN
    /\ file \in (IF fileExists THEN ConfigFiles ELSE {<<>>})
    /\ args \in ArgChoices
    \* a build.log may be left over from an earlier run
    /\ logExists \in BOOLEAN
    /\ log = IF logExists THEN <<SuccessLine>> ELSE <<>>

\* ---------------------------------------------------------------- actions
\* sys.exit(code)
Exit(code) == pc' = "exited" /\ exitCode' = code

\* An exception raised inside the try block of main().
Raise(e) ==
    /\ raised' = e
    /\ IF MainCatches(e)
       THEN pc' = "except" /\ UNCHANGED exitCode
       ELSE Exit(1)

\* load_env(args.config)
LoadConfig ==
    /\ pc = "start"
    /\ IF ~fileExists
       THEN Exit(1) /\ UNCHANGED CONFIG
       ELSE pc' = "validate" /\ CONFIG' = load_env(file) /\ UNCHANGED exitCode
    /\ UNCHANGED <<inputVars, validated, message_id, net, effects, syncRets,
                   buildVars, outVars, build_success, packVars, shutdownIssued>>

\* The validation loop over required_keys.
Validate ==
    /\ pc = "validate"
    /\ IF \E i \in 1..Len(required_keys) : KeyMissing(CONFIG, required_keys[i])
       THEN Exit(1) /\ UNCHANGED validated
       ELSE pc' = "disk" /\ validated' = TRUE /\ UNCHANGED exitCode
    /\ UNCHANGED <<inputVars, CONFIG, message_id, net, effects, syncRets,
                   buildVars, outVars, build_success, packVars, shutdownIssued>>

\* 1. Disk optimization: one script or the other is run.
DiskOptimize ==
    /\ pc = "disk"
    /\ pc' = "sync"
    /\ effects' = IF args.disk_optimization
                  THEN effects \cup {"subprocess"} ELSE effects
    /\ UNCHANGED <<exitCode, inputVars, CONFIG, validated, message_id, net,
                   syncRets, buildVars, outVars, build_success, packVars,
                   shutdownIssued>>

\* 2. Syncing: the status message, the sync tool once or twice, the edit.
Sync ==
    /\ pc = "sync"
    /\ pc' = "clean"
    /\ IF args.sync
       THEN \E ok \in BOOLEAN, r1 \in ExitStatuses, r2 \in ExitStatuses :
              LET id == send_message_result(ok, SyncMsgId)
                  rets == sync_returncodes(r1, r2)
                  text == sync_status_text(rets[Len(rets)])
              IN  /\ message_id' = id
                  /\ syncRets' = rets
                  /\ net' = net
                        \cup {send_message_request(CONFIG, "Syncing", <<>>, ok,
                                                   SyncMsgId)}
                        \cup edit_message(CONFIG, id, text, NoId, <<>>)
                  /\ effects' = effects \cup {"subprocess"}
       ELSE UNCHANGED <<message_id, syncRets, net, effects>>
    /\ UNCHANGED <<exitCode, inputVars, CONFIG, validated, buildVars, outVars,
                   build_success, packVars, shutdownIssued>>

\* 3. Cleaning and 4. Preparation: the trees and the three residual files go.
CleanAndPrepare ==
    /\ pc = "clean"
    /\ pc' = "compile"
    /\ effects' = IF args.clean \/ args.clean_device \/ logExists \/ errorLogExists
                  THEN effects \cup {"remove"} ELSE effects
    /\ outDirExists' = IF args.clean \/ args.clean_device THEN FALSE ELSE outDirExists
    /\ listing' = IF args.clean \/ args.clean_device THEN <<>> ELSE listing
    /\ errorLogExists' = FALSE
    /\ logExists' = FALSE
    /\ log' = <<>>
    /\ UNCHANGED <<exitCode, inputVars, CONFIG, validated, message_id, net,
                   syncRets, child, script, previous_prog, build_success,
                   packVars, shutdownIssued>>

\* The "Compiling" status message and subprocess.Popen(build_cmd).
LaunchBuild(scripts) ==
    /\ pc = "compile"
    /\ pc' = "poll"
    /\ \E ok \in BOOLEAN, s \in scripts :
         /\ message_id' = send_message_result(ok, BuildMsgId)
         /\ net' = net \cup {send_message_request(CONFIG, "Compiling", <<>>, ok,
                                                  BuildMsgId)}
         /\ script' = s
    /\ child' = "running"
    /\ previous_prog' = EmptyProg
    /\ effects' = effects \cup {"subprocess"}
    /\ UNCHANGED <<exitCode, inputVars, CONFIG, validated, syncRets, logExists,
                   log, outVars, build_success, packVars, shutdownIssued>>

\* The build child prints its next line; tee appends it to build.log.
ChildWrite ==
    /\ child = "running"
    /\ script # <<>>
    /\ log' = Append(log, Head(script))
    /\ script' = Tail(script)
    /\ logExists' = TRUE
    /\ UNCHANGED <<pc, exitCode, inputVars, CONFIG, validated, message_id, net,
                   effects, syncRets, child, previous_prog, outVars,
                   build_success, packVars, shutdownIssued>>

\* The build child exits, leaving the output directory as it made it.
ChildExit(dirs) ==
    /\ child = "running"
    /\ script = <<>>
    /\ child' = "exited"
    /\ logExists' = TRUE
    /\ \E d \in dirs :
         /\ outDirExists' = d.exists
         /\ listing' = d.files
         /\ errorLogExists' = d.errorLog
    /\ UNCHANGED <<pc, exitCode, inputVars, CONFIG, validated, message_id, net,
                   effects, syncRets, script, log, previous_prog,
                   build_success, packVars, shutdownIssued>>

\* One iteration of "while process.poll() is None".
Poll ==
    /\ pc = "poll"
    /\ child = "running"
    /\ LET current_prog == fetch_progress(logExists, log)
       IN  IF current_prog # NoneProg /\ current_prog # previous_prog
           THEN /\ net' = net \cup edit_message(CONFIG, message_id, "Progress",
                                                NoId, <<>>)
                /\ previous_prog' = current_prog
           ELSE UNCHANGED <<net, previous_prog>>
    /\ UNCHANGED <<pc, exitCode, inputVars, CONFIG, validated, message_id,
                   effects, syncRets, child, script, logExists, log, outVars,
                   build_success, packVars, shutdownIssued>>

\* process.poll() is no longer None: the loop ends.
LoopExit ==
    /\ pc = "poll"
    /\ child = "exited"
    /\ pc' = "evaluate"
    /\ UNCHANGED <<exitCode, inputVars, CONFIG, validated, message_id, net,
                   effects, syncRets, buildVars, outVars, build_success,
                   packVars, shutdownIssued>>

\* 5. Post-build: the log check and the artifact fallback.
Evaluate ==
    /\ pc = "evaluate"
    /\ build_success' = build_succeeded(CONFIG, logExists, log, outDirExists,
                                        listing)
    /\ pc' = IF build_success' THEN "select" ELSE "fail"
    /\ UNCHANGED <<exitCode, inputVars, CONFIG, validated, message_id, net,
                   effects, syncRets, buildVars, outVars, packVars,
                   shutdownIssued>>

\* "if not build_success": the failure notice, the error log, sys.exit(1).
FailurePath ==
    /\ pc = "fail"
    /\ net' = net
          \cup edit_message(CONFIG, message_id, "Build Failed", NoId,
                            target_error_chat(CONFIG))
          \cup (IF errorLogExists
                THEN send_document(CONFIG, target_error_chat(CONFIG)) ELSE {})
    /\ Exit(1)
    /\ UNCHANGED <<inputVars, CONFIG, validated, message_id, effects, syncRets,
                   buildVars, outVars, build_success, packVars, shutdownIssued>>

\* The try block, first part: the artifact set and the main artifact.
SelectArtifact ==
    /\ pc = "select"
    /\ IF ~outDirExists \/ all_files(CONFIG, listing) = <<>>
       THEN Raise("FileNotFoundError") /\ UNCHANGED rom_filename
       ELSE /\ rom_filename' = SelectRom(CONFIG, listing)
            /\ pc' = "stage"
            /\ UNCHANGED <<exitCode, raised>>
    /\ UNCHANGED <<inputVars, CONFIG, validated, message_id, net, effects,
                   syncRets, buildVars, outVars, build_success, world,
                   rclone_out, gofile_out, shutdownIssued>>

\* Staging folder, manifests, make_archive, rmtree of the staging folder.
Stage ==
    /\ pc = "stage"
    /\ \E outcome \in {"ok", "staging error", "archive error"} :
         /\ effects' = effects \cup {"stage"}
                \cup (IF outcome = "staging error" THEN {} ELSE {"archive"})
         /\ IF outcome = "ok"
            THEN pc' = "upload" /\ UNCHANGED <<exitCode, raised>>
            ELSE Raise("OSError")
    /\ UNCHANGED <<inputVars, CONFIG, validated, message_id, net, syncRets,
                   buildVars, outVars, build_success, rom_filename, world,
                   rclone_out, gofile_out, shutdownIssued>>

\* upload_rclone of the main artifact, upload_gofile of the initial-install
\* archive.
Upload(worlds) ==
    /\ pc = "upload"
    /\ IF ~({"RCLONE_REMOTE", "RCLONE_FOLDER"} \subseteq DOMAIN CONFIG)
       THEN Raise("KeyError") /\ UNCHANGED <<world, rclone_out, gofile_out, effects>>
       ELSE \E w \in worlds :
              /\ world' = w
              /\ effects' = effects \cup {"upload"}
              /\ rclone_out' = upload_rclone(w)
              /\ IF upload_rclone(w).raised # ""
                 THEN Raise(upload_rclone(w).raised) /\ UNCHANGED gofile_out
                 ELSE /\ gofile_out' = upload_gofile(w)
                      /\ pc' = "summarize"
                      /\ UNCHANGED <<exitCode, raised>>
    /\ UNCHANGED <<inputVars, CONFIG, validated, message_id, net, syncRets,
                   buildVars, outVars, build_success, rom_filename,
                   shutdownIssued>>

\* md5sum and ls, the success summary, the pin.
Summarize ==
    /\ pc = "summarize"
    /\ effects' = effects \cup {"checksum"}
    /\ \E utilityFails \in BOOLEAN :
         IF utilityFails
         THEN Raise("CalledProcessError") /\ UNCHANGED net
         ELSE /\ net' = net
                    \cup edit_message(CONFIG, message_id, "Success", NoId, <<>>)
                    \cup pin_message(CONFIG, message_id, <<>>)
              /\ pc' = "shutdown"
              /\ UNCHANGED <<exitCode, raised>>
    /\ UNCHANGED <<inputVars, CONFIG, validated, message_id, syncRets,
                   buildVars, outVars, build_success, rom_filename, world,
                   rclone_out, gofile_out, shutdownIssued>>

\* "except Exception as e": the plain chat message.
HandleException ==
    /\ pc = "except"
    /\ pc' = "shutdown"
    /\ \E ok \in BOOLEAN :
         net' = net \cup {send_message_request(CONFIG, "Packaging failed", <<>>,
                                               ok, NoteMsgId)}
    /\ UNCHANGED <<exitCode, inputVars, CONFIG, validated, message_id, effects,
                   syncRets, buildVars, outVars, build_success, packVars,
                   shutdownIssued>>

\* "if CONFIG.get('POWEROFF')", then the end of main().
Shutdown ==
    /\ pc = "shutdown"
    /\ shutdownIssued' = ConfigFlag(CONFIG, "POWEROFF")
    /\ Exit(0)
    /\ UNCHANGED <<inputVars, CONFIG, validated, message_id, net, effects,
                   syncRets, buildVars, outVars, build_success, packVars>>

\* ---------------------------------------------------------- specifications
\* The pipeline, from the command line to the process's exit.
Next ==
    \/ LoadConfig
    \/ Validate
    \/ DiskOptimize
    \/ Sync
    \/ CleanAndPrepare
    \/ LaunchBuild(PipelineScripts)
    \/ ChildWrite
    \/ ChildExit(PipelineOutDirs)
    \/ Poll
    \/ LoopExit
    \/ Evaluate
    \/ FailurePath
    \/ SelectArtifact
    \/ Stage
    \/ Upload(PipelineWorlds)
    \/ Summarize
    \/ HandleException
    \/ Shutdown

Spec == Init /\ [][Next]_vars

\* A run with a good config file and no flags, as it stands when main() has
\* sent the "Compiling" message and started the build child.
Compiling ==
    /\ exitCode = 0
    /\ fileExists = TRUE
    /\ file = GoodConfigFile
    /\ args = Args(FALSE, FALSE, FALSE, FALSE)
    /\ CONFIG = load_env(GoodConfigFile)
    /\ validated = TRUE
    /\ message_id = BuildMsgId
    /\ net = {send_message_request(load_env(GoodConfigFile), "Compiling", <<>>,
                                   TRUE, BuildMsgId)}
    /\ effects = {"subprocess"}
    /\ syncRets = <<>>
    /\ previous_prog = EmptyProg
    /\ errorLogExists = FALSE
    /\ raised = ""
    /\ world = NoWorld
    /\ rclone_out = Returned(<<>>)
    /\ gofile_out = Returned(<<>>)
    /\ shutdownIssued = FALSE

\* The polling loop over every output the build child may print.
InitPoll ==
    /\ Compiling
    /\ pc = "poll"
    /\ child = "running"
    /\ script \in AllScripts
    /\ logExists = FALSE
    /\ log = <<>>
    /\ outDirExists = FALSE
    /\ listing = <<>>
    /\ build_success = FALSE
    /\ rom_filename = <<>>

NextPoll ==
    \/ ChildWrite
    \/ Poll
    \/ ChildExit({OutDir(TRUE, <<>>, FALSE)})
    \/ LoopExit

SpecPoll == InitPoll /\ [][NextPoll]_vars

\* The evaluation and the selection over every output directory the build
\* child may leave.
InitSelect ==
    /\ Compiling
    /\ pc = "poll"
    /\ child = "running"
    /\ script = <<>>
    /\ log \in {<<>>, <<SuccessLine>>}
    /\ logExists = (log # <<>>)
    /\ outDirExists = FALSE
    /\ listing = <<>>
    /\ build_success = FALSE
    /\ rom_filename = <<>>

NextSelect ==
    \/ ChildExit(OutDirsUpTo(MaxFiles))
    \/ LoopExit
    \/ Evaluate
    \/ FailurePath
    \/ SelectArtifact

SpecSelect == InitSelect /\ [][NextSelect]_vars

\* The two adapters over every outcome of their external steps.
InitUpload ==
    /\ Compiling
    /\ pc = "stage"
    /\ child = "exited"
    /\ script = <<>>
    /\ logExists = TRUE
    /\ log = <<SuccessLine>>
    /\ outDirExists = TRUE
    /\ listing = <<File(<<"1", "dev", ".zip">>, 1)>>
    /\ build_success = TRUE
    /\ rom_filename = File(<<"1", "dev", ".zip">>, 1)

NextUpload ==
    \/ Stage
    \/ Upload(AllWorlds)
    \/ Summarize
    \/ HandleException
    \/ Shutdown

SpecUpload == InitUpload /\ [][NextUpload]_vars

\* ------------------------------------------------------------------ claims
\* What the claims speak of, said without the operators of main().
PastValidation == validated
OnFailurePath == pc = "fail" \/ (pc = "exited" /\ validated /\ exitCode = 1)
AfterEvaluate ==
    pc \in {"fail", "select", "stage", "upload", "summarize", "except",
            "shutdown"} \/ (pc = "exited" /\ validated)
PhraseInLog == \E i \in DOMAIN log : log[i].phrase
ArtifactSet ==
    IF outDirExists
    THEN {listing[i] : i \in {j \in DOMAIN listing :
                                /\ "dev" \in Range(listing[j].name)
                                /\ listing[j].name[Len(listing[j].name)] = ".zip"}}
    ELSE {}
Excluded(f) ==
    \E i \in DOMAIN f.name : f.name[i] \in {"ota", "OTA", "target_files"}
Sent(text) == \E r \in net : r.text = text
PowerOffSet == "POWEROFF" \in DOMAIN CONFIG /\ CONFIG["POWEROFF"] = Bool(TRUE)

\* C1: with POWEROFF set, every run that got past validation has issued the
\* shutdown command by the time it ends, whichever path it took (the build
\* failure path included).
C1_ShutdownOnEveryPath ==
    (pc = "exited" /\ PastValidation /\ PowerOffSet) => shutdownIssued

\* C2: the failure path is taken exactly when the log lacks the success
\* phrase and the output directory holds no file of the Artifact Set, and a
\* run on the failure path never stages, archives, uploads, computes a
\* checksum or pins.
C2_FailureExactlyWhenBothChecksFail ==
    /\ AfterEvaluate => (OnFailurePath <=> (~PhraseInLog /\ ArtifactSet = {}))
    /\ OnFailurePath =>
         /\ effects \cap {"stage", "archive", "upload", "checksum"} = {}
         /\ world = NoWorld
         /\ rom_filename = <<>>
         /\ ~\E r \in net : r.api = "pinChatMessage"

C2_Witness ==
    /\ pc = "exited" /\ validated /\ exitCode = 1
    /\ listing # <<>>
    /\ ~PhraseInLog

\* C3: with the sync flag, the sync tool runs once, or twice exactly when
\* its first run exited non-zero; the status message, when one was sent, is
\* edited to "Sync Complete" if the last run exited 0 and to "Sync Failed"
\* otherwise; and no run ends without having launched the build child.
C3_SyncNeverFatal ==
    (args.sync /\ validated /\ pc \notin {"disk", "sync"}) =>
        /\ Len(syncRets) \in {1, 2}
        /\ Len(syncRets) = 2 <=> syncRets[1] # 0
        /\ LET last == syncRets[Len(syncRets)]
               want == IF last = 0 THEN "Sync Complete" ELSE "Sync Failed"
               other == IF last = 0 THEN "Sync Failed" ELSE "Sync Complete"
               known == \E r \in net : r.text = "Syncing" /\ r.result # NoId
           IN  /\ known => \E r \in net : /\ r.api = "editMessageText"
                                          /\ r.text = want
                                          /\ r.message_id = SyncMsgId
               /\ ~Sent(other)
        /\ pc = "exited" => child = "exited"

C3_Witness ==
    /\ pc = "exited" /\ args.sync
    /\ Len(syncRets) = 2 /\ syncRets[2] # 0
    /\ Sent("Sync Failed")
    /\ child = "exited"

\* C4: once the build is declared successful, an exception at any step of
\* the packaging stage is caught: the "packaging failed" message is sent,
\* the shutdown check is made and the process ends with exit code 0.
C4_PackagingFailureNotFatal ==
    /\ raised # "" => build_success /\ pc \in {"except", "shutdown", "exited"}
    /\ (raised # "" /\ pc \in {"shutdown", "exited"}) =>
           \E r \in net : r.api = "sendMessage" /\ r.text = "Packaging failed"
    /\ (build_success /\ pc = "exited") =>
           exitCode = 0 /\ (shutdownIssued <=> PowerOffSet)

C4_Witness ==
    /\ pc = "exited"
    /\ raised = "FileNotFoundError"
    /\ ~world.rcloneInstalled
    /\ exitCode = 0

\* C5: when the config file is missing, or a required key is absent or
\* empty after parsing, the process ends with a non-zero code and no chat
\* request, subprocess or file removal has happened.
BadConfigFile ==
    \/ ~fileExists
    \/ \E k \in {"DEVICE", "VARIANT", "BOT_TOKEN", "CHAT_ID"} :
          k \notin DOMAIN file \/ ParseValue(file[k]) = Str(<<>>)

C5_BadConfigAbortsBeforeEffects ==
    BadConfigFile =>
        /\ pc \in {"start", "validate", "exited"}
        /\ net = {}
        /\ effects = {}
        /\ child = "none"
        /\ pc = "exited" => exitCode # 0

C5_Witness ==
    /\ pc = "exited"
    /\ fileExists
    /\ {"DEVICE", "VARIANT", "BOT_TOKEN", "CHAT_ID"} \subseteq DOMAIN file
    /\ CONFIG["VARIANT"] = Str(<<>>)
    /\ exitCode = 1

\* C6: for every outcome of their external steps both adapters return
\* without raising, and what they return is a locator or a failure text.
C6_AdaptersNeverRaise ==
    world # NoWorld =>
        /\ rclone_out.raised = ""
        /\ rclone_out.value # <<>>
        /\ pc \in {"summarize", "shutdown", "exited"} =>
              gofile_out.raised = "" /\ gofile_out.value # <<>>

\* C7: every failure after validation (sync, build, packaging) has been
\* reported by a chat request by the time the run ends.
C7_EveryFailureReported ==
    (pc = "exited" /\ PastValidation) =>
        /\ (syncRets # <<>> /\ syncRets[Len(syncRets)] # 0) => Sent("Sync Failed")
        /\ exitCode = 1 => Sent("Build Failed")
        /\ raised # "" => Sent("Packaging failed")

\* C8 as stated: the remembered progress never goes down, and never falls
\* back from a percentage to the sentinel.
C8_ProgressMonotone ==
    [][previous_prog.kind = "prog" =>
          /\ previous_prog'.kind = "prog"
          /\ previous_prog'.pct >= previous_prog.pct
          /\ previous_prog'.done >= previous_prog.done]_vars

\* What the last pattern-matching line of the log shows.
Matching(lines) == {i \in DOMAIN lines : lines[i].found # <<>>}
LatestShown(lines) ==
    IF Matching(lines) = {} THEN Sentinel
    ELSE LET i == CHOOSE i \in Matching(lines) : \A j \in Matching(lines) : j <= i
         IN  [kind |-> "prog", pct |-> lines[i].found[1],
              done |-> lines[i].found[2], total |-> lines[i].found[3]]

\* C8 as amended: after each poll that found build.log, the remembered
\* progress is what the last pattern-matching line of the log shows, or the
\* sentinel when no line matches or the log could not be read (it holds a
\* garbled line); a poll that found no log leaves it alone.
C8_LatestLineWins ==
    [][Poll =>
          previous_prog' = (IF ~logExists THEN previous_prog
                            ELSE IF GarbledLine \in Range(log) THEN Sentinel
                            ELSE LatestShown(log))]_vars

C8_Witness ==
    /\ pc = "poll"
    /\ previous_prog.kind = "prog"
    /\ previous_prog = LatestShown(log)
    /\ \E i \in Matching(log) : log[i].found[1] > previous_prog.pct

\* C9: the selected main artifact belongs to the Artifact Set; it is a
\* largest file among those whose lower-cased name has neither "ota" nor
\* "target_files" when there is one, and a largest file of the whole set
\* only otherwise; a non-empty Artifact Set always yields a selection.
C9_MainArtifactSelection ==
    /\ (pc = "stage" /\ ArtifactSet # {}) => rom_filename # <<>>
    /\ rom_filename # <<>> =>
         LET mains == {f \in ArtifactSet : ~Excluded(f)}
             pool == IF mains # {} THEN mains ELSE ArtifactSet
         IN  /\ rom_filename \in pool
             /\ \A f \in pool : f.size <= rom_filename.size

C9_Witness ==
    /\ pc = "stage"
    /\ ~Excluded(rom_filename)
    /\ \E f \in ArtifactSet : Excluded(f) /\ f.size > rom_filename.size

\* C10: every edit or pin request on the network names a known message
\* identifier.
C10_RequestsNameKnownMessage ==
    \A r \in net :
        r.api \in {"editMessageText", "pinChatMessage"} => r.message_id # NoId

====
